---- MODULE Spec2Model ----
(***************************************************************************)
(* Model of nextest-runner/src/list/rust_build_meta.rs:                    *)
(* RustBuildMeta<State>, its constructors, the Discovery -> Execution      *)
(* transition map_paths, the summary adapter (to_summary / from_summary)   *)
(* and the dynamic library path resolver dylib_paths.                      *)
(*                                                                         *)
(* Paths are sequences of tokens.  The token "ROOT" stands for the root of *)
(* an absolute path, "/" and "\\" are separators, every other token is one *)
(* path component.  Ordered collections (BTreeSet, BTreeMap) are sequences *)
(* kept sorted by their insert operation.                                  *)
(***************************************************************************)
EXTENDS Integers, Sequences, FiniteSets, TLC

\* An Option<T> is <<>> (None) or <<t>> (Some(t)).
VARIABLES
    os,        \* the platform the program was built for
    meta,      \* Option<RustBuildMeta<BinaryListState>>: the Discovery-phase value
    test_meta, \* Option<RustBuildMeta<TestListState>>: the Execution-phase value
    saved,     \* Option<RustBuildMetaSummary>: the summary in hand
    origin,    \* history: how the value in each of the three was produced
    inserts,   \* number of collection inserts performed so far
    last       \* history: the last operation, its arguments and its result

vars == <<os, meta, test_meta, saved, origin, inserts, last>>

\* ------------------------------------------------------------- bounds
MaxInserts == 2

\* ------------------------------------------------------------- universe
Platforms == {"unix", "windows"}

BinaryListState == "BinaryListState"
TestListState == "TestListState"
States == {BinaryListState, TestListState}

\* Byte order of the component names, package ids and binary names in use.
NameOrder == <<"a", "b", "bin1", "c", "d", "debug", "deps", "out1", "pkg1", "pkg2", "remap", "target">>
Rank(n) == CHOOSE i \in 1..Len(NameOrder) : NameOrder[i] = n

AbsTarget == <<"ROOT", "target">>
RelTarget == <<"target">>
Remapped == <<"ROOT", "remap">>

\* Relative paths are stored with forward slashes.
LinkedDirs == {<<"a", "/", "b">>, <<"c", "/", "d">>}
BaseDirs == {<<"out1">>, <<"debug">>}
PackageIds == {"pkg1"}
Binaries == {"bin1"}

\* PathMapper::new_target_dir(): Option<&Utf8Path>, None as <<>>.
NoOverride == <<>>
Overrides == {NoOverride, <<Remapped>>}

\* ------------------------------------------------------------- paths
IsSep(t) == t \in {"/", "\\"}
MainSeparator(platform) == IF platform = "windows" THEN "\\" ELSE "/"

IsAbsolute(p) == p # <<>> /\ Head(p) = "ROOT"

Components(p) == SelectSeq(p, LAMBDA t : ~IsSep(t))

RECURSIVE CompLess(_, _)
CompLess(a, b) ==
    IF b = <<>> THEN FALSE
    ELSE IF a = <<>> THEN TRUE
    ELSE IF Rank(Head(a)) < Rank(Head(b)) THEN TRUE
    ELSE IF Rank(Head(a)) > Rank(Head(b)) THEN FALSE
    ELSE CompLess(Tail(a), Tail(b))

\* Ord for Utf8PathBuf: component-wise.
PathLess(p, q) == CompLess(Components(p), Components(q))
\* Ord for String.
StrLess(a, b) == Rank(a) < Rank(b)

\* helpers::convert_rel_path_to_main_sep: forward slashes become the
\* platform's main separator.
convert_rel_path_to_main_sep(platform, rel) ==
    [i \in 1..Len(rel) |-> IF rel[i] = "/" THEN MainSeparator(platform) ELSE rel[i]]

\* Utf8Path::join: an absolute argument replaces the base; a separator is
\* added unless the base is empty or already ends with one.
PathJoin(platform, base, rel) ==
    IF IsAbsolute(rel) THEN rel
    ELSE IF base = <<>> \/ IsSep(base[Len(base)]) \/ base = <<"ROOT">> THEN base \o rel
    ELSE base \o <<MainSeparator(platform)>> \o rel

\* ------------------------------------------------------------- ordered collections
\* BTreeSet<Utf8PathBuf>::insert on the sorted sequence s: no duplicates,
\* order kept.
PathSetInsert(s, x) ==
    IF \E i \in 1..Len(s) : s[i] = x THEN s
    ELSE LET k == Cardinality({i \in 1..Len(s) : PathLess(s[i], x)})
         IN  SubSeq(s, 1, k) \o <<x>> \o SubSeq(s, k + 1, Len(s))

\* BTreeSet<String>::insert (and BTreeSet<RustNonTestBinarySummary>::insert,
\* a binary standing for its name).
StrSetInsert(s, x) ==
    IF \E i \in 1..Len(s) : s[i] = x THEN s
    ELSE LET k == Cardinality({i \in 1..Len(s) : StrLess(s[i], x)})
         IN  SubSeq(s, 1, k) \o <<x>> \o SubSeq(s, k + 1, Len(s))

\* BTreeMap<Utf8PathBuf, _>::insert on the sequence of [key, value] entries
\* sorted by key.
PathMapInsert(m, k, v) ==
    IF \E i \in 1..Len(m) : m[i].key = k
    THEN [i \in 1..Len(m) |-> IF m[i].key = k THEN [key |-> k, value |-> v] ELSE m[i]]
    ELSE LET n == Cardinality({i \in 1..Len(m) : PathLess(m[i].key, k)})
         IN  SubSeq(m, 1, n) \o <<[key |-> k, value |-> v]>> \o SubSeq(m, n + 1, Len(m))

\* BTreeMap<String, _>::insert.
StrMapInsert(m, k, v) ==
    IF \E i \in 1..Len(m) : m[i].key = k
    THEN [i \in 1..Len(m) |-> IF m[i].key = k THEN [key |-> k, value |-> v] ELSE m[i]]
    ELSE LET n == Cardinality({i \in 1..Len(m) : StrLess(m[i].key, k)})
         IN  SubSeq(m, 1, n) \o <<[key |-> k, value |-> v]>> \o SubSeq(m, n + 1, Len(m))

\* BTreeMap::keys(): the keys in iteration order.
Keys(m) == [i \in 1..Len(m) |-> m[i].key]

\* The value stored under k, or the empty set (entry(k).or_default()).
EntryOrDefault(m, k) ==
    IF \E i \in 1..Len(m) : m[i].key = k
    THEN (CHOOSE e \in {m[i] : i \in 1..Len(m)} : e.key = k).value
    ELSE <<>>

\* Iterator::collect into BTreeSet<Utf8PathBuf>.
RECURSIVE CollectPathSet(_)
CollectPathSet(it) ==
    IF it = <<>> THEN <<>>
    ELSE PathSetInsert(CollectPathSet(SubSeq(it, 1, Len(it) - 1)), it[Len(it)])

\* Iterator::collect into BTreeMap<Utf8PathBuf, _>.
RECURSIVE CollectPathMap(_)
CollectPathMap(it) ==
    IF it = <<>> THEN <<>>
    ELSE PathMapInsert(CollectPathMap(SubSeq(it, 1, Len(it) - 1)),
                       it[Len(it)].key, it[Len(it)].value)

\* ------------------------------------------------------------- target triple codec
\* Option<TargetTriple> in memory; Option<String> (None as <<>>) in a summary.
RecognizedTriples == {"x86_64-unknown-linux-gnu"}
NoTriple == [kind |-> "absent", triple |-> ""]
KnownTriple(s) == [kind |-> "recognized", triple |-> s]
UnknownTriple(s) == [kind |-> "unknown", triple |-> s]

TargetTripleSerialize(t) == IF t.kind = "absent" THEN <<>> ELSE <<t.triple>>

TargetTripleDeserialize(o) ==
    IF o = <<>> THEN NoTriple
    ELSE IF o[1] \in RecognizedTriples THEN KnownTriple(o[1])
    ELSE UnknownTriple(o[1])

\* The arguments new is called with: a target directory and a target triple.
NewInputs ==
    { <<AbsTarget, KnownTriple("x86_64-unknown-linux-gnu")>>,
      <<RelTarget, NoTriple>> }

\* ------------------------------------------------------------- RustBuildMeta
\* RustBuildMeta::new
new(target_directory, target_triple) ==
    [ target_directory        |-> target_directory,
      base_output_directories |-> <<>>,
      non_test_binaries       |-> <<>>,
      linked_paths            |-> <<>>,
      state                   |-> BinaryListState,
      target_triple           |-> target_triple ]

\* map_paths without the clone of linked_paths: MapPathsResult fails for it.
map_paths_unlinked(self, path_mapper) ==
    [ target_directory        |-> IF path_mapper # NoOverride THEN path_mapper[1]
                                  ELSE self.target_directory,
      base_output_directories |-> self.base_output_directories,
      non_test_binaries       |-> self.non_test_binaries,
      linked_paths            |-> <<>>,
      state                   |-> TestListState,
      target_triple           |-> self.target_triple ]

\* map_paths that keeps the source's phase marker:
\* DiscoveryFromExecutionOnlyBySummary fails for it.
map_paths_keeps_phase(self, path_mapper) ==
    [ target_directory        |-> IF path_mapper # NoOverride THEN path_mapper[1]
                                  ELSE self.target_directory,
      base_output_directories |-> self.base_output_directories,
      non_test_binaries       |-> self.non_test_binaries,
      linked_paths            |-> self.linked_paths,
      state                   |-> self.state,
      target_triple           |-> self.target_triple ]

\* map_paths that never consults the mapper: TargetDirectoryAsGiven fails
\* for it.
map_paths_ignores_override(self, path_mapper) ==
    [ target_directory        |-> self.target_directory,
      base_output_directories |-> self.base_output_directories,
      non_test_binaries       |-> self.non_test_binaries,
      linked_paths            |-> self.linked_paths,
      state                   |-> TestListState,
      target_triple           |-> self.target_triple ]

\* RustBuildMeta::map_paths; path_mapper is PathMapper::new_target_dir().
map_paths(self, path_mapper) ==
    [ target_directory        |-> IF path_mapper # NoOverride THEN path_mapper[1]
                                  ELSE self.target_directory,
      base_output_directories |-> self.base_output_directories,
      non_test_binaries       |-> self.non_test_binaries,
      linked_paths            |-> self.linked_paths,
      state                   |-> TestListState,
      target_triple           |-> self.target_triple ]

\* RustBuildMeta::empty (cfg(test))
empty ==
    [ target_directory        |-> <<>>,
      base_output_directories |-> <<>>,
      non_test_binaries       |-> <<>>,
      linked_paths            |-> <<>>,
      state                   |-> TestListState,
      target_triple           |-> NoTriple ]

\* The linked part without the exists() filter: DylibPathsFiltering fails
\* for it.
RECURSIVE LinkedPartUnfiltered(_, _, _, _)
LinkedPartUnfiltered(platform, target_directory, keys, exists) ==
    IF keys = <<>> THEN <<>>
    ELSE <<PathJoin(platform, target_directory,
                    convert_rel_path_to_main_sep(platform, Head(keys)))>>
         \o LinkedPartUnfiltered(platform, target_directory, Tail(keys), exists)

\* linked_paths.keys().filter_map(..): the joined path of every key that
\* exists on disk, in key order.
RECURSIVE LinkedPart(_, _, _, _)
LinkedPart(platform, target_directory, keys, exists) ==
    IF keys = <<>> THEN <<>>
    ELSE LET join_path == PathJoin(platform, target_directory,
                                   convert_rel_path_to_main_sep(platform, Head(keys)))
         IN  (IF join_path \in exists THEN <<join_path>> ELSE <<>>)
             \o LinkedPart(platform, target_directory, Tail(keys), exists)

\* The base part with [abs_base, with_deps]: DylibPathsOrder fails for it.
RECURSIVE BasePartSwapped(_, _, _)
BasePartSwapped(platform, target_directory, bases) ==
    IF bases = <<>> THEN <<>>
    ELSE LET abs_base == PathJoin(platform, target_directory,
                                  convert_rel_path_to_main_sep(platform, Head(bases)))
             with_deps == PathJoin(platform, abs_base, <<"deps">>)
         IN  <<abs_base, with_deps>> \o BasePartSwapped(platform, target_directory, Tail(bases))

\* base_output_directories.iter().flat_map(..): [with_deps, abs_base] for
\* every base output directory, in set order.
RECURSIVE BasePart(_, _, _)
BasePart(platform, target_directory, bases) ==
    IF bases = <<>> THEN <<>>
    ELSE LET abs_base == PathJoin(platform, target_directory,
                                  convert_rel_path_to_main_sep(platform, Head(bases)))
             with_deps == PathJoin(platform, abs_base, <<"deps">>)
         IN  <<with_deps, abs_base>> \o BasePart(platform, target_directory, Tail(bases))

\* RustBuildMeta::dylib_paths; exists is the set of paths present on disk
\* when join_path.exists() is called.
dylib_paths(platform, self, exists) ==
    LinkedPart(platform, self.target_directory, Keys(self.linked_paths), exists)
    \o BasePart(platform, self.target_directory, self.base_output_directories)

\* from_summary that takes an unrecognized triple for no triple:
\* UnknownTripleIsPresent fails for it.
from_summary_unknown_absent(summary, state) ==
    [ target_directory        |-> summary.target_directory,
      base_output_directories |-> summary.base_output_directories,
      non_test_binaries       |-> summary.non_test_binaries,
      linked_paths            |-> CollectPathMap(
                                      [i \in 1..Len(summary.linked_paths) |->
                                          [key |-> summary.linked_paths[i], value |-> <<>>]]),
      state                   |-> state,
      target_triple           |-> IF TargetTripleDeserialize(summary.target_triple).kind = "unknown"
                                  THEN NoTriple
                                  ELSE TargetTripleDeserialize(summary.target_triple) ]

\* RustBuildMeta::from_summary; state is the caller's choice of State.
from_summary(summary, state) ==
    [ target_directory        |-> summary.target_directory,
      base_output_directories |-> summary.base_output_directories,
      non_test_binaries       |-> summary.non_test_binaries,
      linked_paths            |-> CollectPathMap(
                                      [i \in 1..Len(summary.linked_paths) |->
                                          [key |-> summary.linked_paths[i], value |-> <<>>]]),
      state                   |-> state,
      target_triple           |-> TargetTripleDeserialize(summary.target_triple) ]

\* to_summary that leaves the target triple out: RoundTripLosesOnlyRequesters
\* fails for it.
to_summary_no_triple(self) ==
    [ target_directory        |-> self.target_directory,
      base_output_directories |-> self.base_output_directories,
      non_test_binaries       |-> self.non_test_binaries,
      linked_paths            |-> CollectPathSet(Keys(self.linked_paths)),
      target_triple           |-> <<>> ]

\* to_summary that lists the linked paths last key first:
\* SummaryIndependentOfInsertionOrder fails for it.
to_summary_reversed(self) ==
    [ target_directory        |-> self.target_directory,
      base_output_directories |-> self.base_output_directories,
      non_test_binaries       |-> self.non_test_binaries,
      linked_paths            |-> [i \in 1..Len(self.linked_paths) |->
                                      self.linked_paths[Len(self.linked_paths) + 1 - i].key],
      target_triple           |-> TargetTripleSerialize(self.target_triple) ]

\* RustBuildMeta::to_summary
to_summary(self) ==
    [ target_directory        |-> self.target_directory,
      base_output_directories |-> self.base_output_directories,
      non_test_binaries       |-> self.non_test_binaries,
      linked_paths            |-> CollectPathSet(Keys(self.linked_paths)),
      target_triple           |-> TargetTripleSerialize(self.target_triple) ]

\* ------------------------------------------------------------- summaries read from disk
\* A summary written by another build: its target triple is a string this
\* build does not recognize.
ExternalSummaries ==
    { [ target_directory        |-> AbsTarget,
        base_output_directories |-> << <<"out1">> >>,
        non_test_binaries       |-> <<>>,
        linked_paths            |-> << <<"a", "/", "b">>, <<"c", "/", "d">> >>,
        target_triple           |-> <<"mystery-unknown-triple">> ] }

\* ------------------------------------------------------------- state machine
Op(name, arg, pre, out) == [op |-> name, arg |-> arg, pre |-> pre, out |-> out]

\* by: the producing operation; of: the phase of the value it was applied
\* to, or of the value the summary it was applied to was taken from.
\* src: for a summary, the value it was taken from (an Option).
\* ops: every operation that took part in producing it.
Produced(by, of, src, ops) == [by |-> by, of |-> of, src |-> src, ops |-> ops \cup {by}]
Nothing == Produced("none", "none", <<>>, {})

\* The lifecycle: meta is bound once, by new or by from_summary, and filled
\* by inserts; test_meta is bound once by map_paths or empty and may be
\* rebound by from_summary; summaries are taken and read at any time.
\* origin and last are history variables: no operation reads them.
Init ==
    /\ os \in Platforms
    /\ meta = <<>>
    /\ test_meta = <<>>
    /\ saved = <<>>
    /\ origin = [meta |-> Nothing, test_meta |-> Nothing, summary |-> Nothing]
    /\ inserts = 0
    /\ last = Op("init", <<>>, <<>>, <<>>)

\* meta = RustBuildMeta::new(target_directory, target_triple)
New(target_directory, target_triple) ==
    /\ meta = <<>>
    /\ meta' = <<new(target_directory, target_triple)>>
    /\ origin' = [origin EXCEPT !.meta = Produced("new", "none", <<>>, {})]
    /\ last' = Op("new", target_directory, <<>>, meta'[1])
    /\ UNCHANGED <<os, test_meta, saved, inserts>>

\* test_meta = RustBuildMeta::empty()
Empty ==
    /\ test_meta = <<>>
    /\ test_meta' = <<empty>>
    /\ origin' = [origin EXCEPT !.test_meta = Produced("empty", "none", <<>>, {})]
    /\ last' = Op("empty", <<>>, <<>>, test_meta'[1])
    /\ UNCHANGED <<os, meta, saved, inserts>>

\* meta.base_output_directories.insert(dir)
InsertBaseOutput(dir) ==
    /\ inserts < MaxInserts
    /\ meta # <<>>
    /\ meta' = [meta EXCEPT ![1].base_output_directories = PathSetInsert(@, dir)]
    /\ inserts' = inserts + 1
    /\ last' = Op("insert", dir, <<>>, <<>>)
    /\ UNCHANGED <<os, test_meta, saved, origin>>

\* meta.linked_paths.entry(dir).or_default().insert(package_id)
InsertLinkedPath(dir, package_id) ==
    /\ inserts < MaxInserts
    /\ meta # <<>>
    /\ meta' = [meta EXCEPT ![1].linked_paths =
                   PathMapInsert(@, dir, StrSetInsert(EntryOrDefault(@, dir), package_id))]
    /\ inserts' = inserts + 1
    /\ last' = Op("insert", dir, <<>>, <<>>)
    /\ UNCHANGED <<os, test_meta, saved, origin>>

\* meta.non_test_binaries.entry(package_id).or_default().insert(binary)
InsertNonTestBinary(package_id, binary) ==
    /\ inserts < MaxInserts
    /\ meta # <<>>
    /\ meta' = [meta EXCEPT ![1].non_test_binaries =
                   StrMapInsert(@, package_id,
                                StrSetInsert(EntryOrDefault(@, package_id), binary))]
    /\ inserts' = inserts + 1
    /\ last' = Op("insert", package_id, <<>>, <<>>)
    /\ UNCHANGED <<os, test_meta, saved, origin>>

\* map_paths written to update its receiver as well: MapPathsLeavesSource
\* fails for it.
MapPathsInPlace(path_mapper) ==
    /\ meta # <<>>
    /\ meta[1].state = BinaryListState
    /\ test_meta = <<>>
    /\ test_meta' = <<map_paths(meta[1], path_mapper)>>
    /\ meta' = [meta EXCEPT ![1].target_directory = test_meta'[1].target_directory]
    /\ origin' = [origin EXCEPT !.test_meta = Produced("map_paths", meta[1].state, <<>>, origin.meta.ops)]
    /\ last' = Op("map_paths", path_mapper, meta[1], test_meta'[1])
    /\ UNCHANGED <<os, saved, inserts>>

\* test_meta = meta.map_paths(&path_mapper)
MapPaths(path_mapper) ==
    /\ meta # <<>>
    /\ meta[1].state = BinaryListState
    /\ test_meta = <<>>
    /\ test_meta' = <<map_paths(meta[1], path_mapper)>>
    /\ origin' = [origin EXCEPT !.test_meta = Produced("map_paths", meta[1].state, <<>>, origin.meta.ops)]
    /\ last' = Op("map_paths", path_mapper, meta[1], test_meta'[1])
    /\ UNCHANGED <<os, meta, saved, inserts>>

\* saved = x.to_summary(), x being meta or test_meta and made its origin
ToSummary(x, made) ==
    /\ x # <<>>
    /\ saved' = <<to_summary(x[1])>>
    /\ origin' = [origin EXCEPT !.summary = Produced("to_summary", x[1].state, x, made.ops)]
    /\ last' = Op("to_summary", <<>>, x[1], saved'[1])
    /\ UNCHANGED <<os, meta, test_meta, inserts>>

\* saved = a summary read from disk
ReadSummary(s) ==
    /\ saved' = <<s>>
    /\ origin' = [origin EXCEPT !.summary = Produced("read", "none", <<>>, {})]
    /\ last' = Op("read", <<>>, <<>>, s)
    /\ UNCHANGED <<os, meta, test_meta, inserts>>

\* meta = RustBuildMeta::<BinaryListState>::from_summary(saved)
FromSummaryBinaryList ==
    /\ saved # <<>>
    /\ meta = <<>>
    /\ meta' = <<from_summary(saved[1], BinaryListState)>>
    /\ origin' = [origin EXCEPT !.meta = Produced("from_summary", origin.summary.of, <<>>, origin.summary.ops)]
    /\ last' = Op("from_summary", saved[1], origin.summary.src, meta'[1])
    /\ UNCHANGED <<os, test_meta, saved, inserts>>

\* test_meta = RustBuildMeta::<TestListState>::from_summary(saved)
FromSummaryTestList ==
    /\ saved # <<>>
    /\ test_meta' = <<from_summary(saved[1], TestListState)>>
    /\ origin' = [origin EXCEPT !.test_meta = Produced("from_summary", origin.summary.of, <<>>, origin.summary.ops)]
    /\ last' = Op("from_summary", saved[1], origin.summary.src, test_meta'[1])
    /\ UNCHANGED <<os, meta, saved, inserts>>

\* The directories of a value that may or may not be on disk: its joined
\* linked paths and its joined base output directories.
FsCandidates(v) ==
    { PathJoin(os, v.target_directory, convert_rel_path_to_main_sep(os, k)) :
        k \in {v.linked_paths[i].key : i \in 1..Len(v.linked_paths)}
               \cup {v.base_output_directories[i] : i \in 1..Len(v.base_output_directories)} }

\* dylib_paths offered in either phase: ExecutionByMapSummaryOrEmpty fails
\* for it.
DylibPathsAnyPhase(exists) ==
    /\ meta # <<>>
    /\ last' = Op("dylib_paths", exists, meta[1], dylib_paths(os, meta[1], exists))
    /\ UNCHANGED <<os, meta, test_meta, saved, origin, inserts>>

\* paths = test_meta.dylib_paths(), with exists the directories on disk at
\* that time.
DylibPaths(exists) ==
    /\ test_meta # <<>>
    /\ test_meta[1].state = TestListState
    /\ last' = Op("dylib_paths", exists, test_meta[1], dylib_paths(os, test_meta[1], exists))
    /\ UNCHANGED <<os, meta, test_meta, saved, origin, inserts>>

Next ==
    \/ \E in \in NewInputs : New(in[1], in[2])
    \/ Empty
    \/ \E d \in BaseDirs : InsertBaseOutput(d)
    \/ \E d \in LinkedDirs, p \in PackageIds : InsertLinkedPath(d, p)
    \/ \E p \in PackageIds, b \in Binaries : InsertNonTestBinary(p, b)
    \/ \E m \in Overrides : MapPaths(m)
    \/ ToSummary(meta, origin.meta)
    \/ ToSummary(test_meta, origin.test_meta)
    \/ \E s \in ExternalSummaries : ReadSummary(s)
    \/ FromSummaryBinaryList
    \/ FromSummaryTestList
    \/ test_meta # <<>> /\ \E ex \in SUBSET FsCandidates(test_meta[1]) : DylibPaths(ex)

Spec == Init /\ [][Next]_vars

\* ------------------------------------------------------------- properties
ToSet(seq) == {seq[i] : i \in 1..Len(seq)}

\* The values currently held, of either phase.
Values == ToSet(meta) \cup ToSet(test_meta)

JoinTarget(v, rel) ==
    PathJoin(os, v.target_directory, convert_rel_path_to_main_sep(os, rel))

\* Number of the paths of S that sort before x.
Before(S, x) == Cardinality({y \in S : PathLess(y, x)})

NoRequesters(m) == [i \in 1..Len(m) |-> [key |-> m[i].key, value |-> <<>>]]

DylibPathsOrder ==
    last.op = "dylib_paths" =>
        LET v == last.pre
            out == last.out
            E == {k \in ToSet(Keys(v.linked_paths)) : JoinTarget(v, k) \in last.arg}
            B == ToSet(v.base_output_directories)
            n == Cardinality(E)
        IN  /\ Len(out) = n + 2 * Cardinality(B)
            /\ \A k \in E : out[Before(E, k) + 1] = JoinTarget(v, k)
            /\ \A b \in B :
                /\ out[n + 2 * Before(B, b) + 1] = PathJoin(os, JoinTarget(v, b), <<"deps">>)
                /\ out[n + 2 * Before(B, b) + 2] = JoinTarget(v, b)
            /\ ( /\ os = "unix"
                 /\ v.target_directory = AbsTarget
                 /\ Keys(v.linked_paths) = << <<"a", "/", "b">>, <<"c", "/", "d">> >>
                 /\ v.base_output_directories = << <<"out1">> >>
                 /\ {JoinTarget(v, k) : k \in LinkedDirs} \subseteq last.arg )
               => out = << <<"ROOT", "target", "/", "a", "/", "b">>,
                           <<"ROOT", "target", "/", "c", "/", "d">>,
                           <<"ROOT", "target", "/", "out1", "/", "deps">>,
                           <<"ROOT", "target", "/", "out1">> >>

\* The example of C2 has been resolved.
DylibPathsOrderWitness ==
    /\ last.op = "dylib_paths"
    /\ os = "unix"
    /\ last.pre.target_directory = AbsTarget
    /\ Keys(last.pre.linked_paths) = << <<"a", "/", "b">>, <<"c", "/", "d">> >>
    /\ last.pre.base_output_directories = << <<"out1">> >>
    /\ {JoinTarget(last.pre, k) : k \in LinkedDirs} \subseteq last.arg
    /\ Len(last.out) = 4

\* C3: a joined linked path is in the result iff it is on disk when checked,
\* the survivors keep their relative order, and both the deps subdirectory
\* and the directory itself of every base output directory are in the result
\* whether or not they are on disk.
DylibPathsFiltering ==
    last.op = "dylib_paths" =>
        LET v == last.pre
            out == last.out
            K == ToSet(Keys(v.linked_paths))
            B == ToSet(v.base_output_directories)
            n == Len(out) - 2 * Cardinality(B)
        IN  /\ n >= 0
            /\ \A k \in K :
                (\E i \in 1..n : out[i] = JoinTarget(v, k)) <=> (JoinTarget(v, k) \in last.arg)
            /\ \A i, j \in 1..n :
                i < j => \E ki, kj \in K : /\ out[i] = JoinTarget(v, ki)
                                           /\ out[j] = JoinTarget(v, kj)
                                           /\ PathLess(ki, kj)
            /\ \A b \in B :
                /\ \E i \in (n + 1)..Len(out) : out[i] = PathJoin(os, JoinTarget(v, b), <<"deps">>)
                /\ \E i \in (n + 1)..Len(out) : out[i] = JoinTarget(v, b)

\* a/b is not on disk and is dropped, c/d is and stays, and out1, which is
\* not on disk either, is listed with its deps subdirectory.
DylibPathsFilteringWitness ==
    /\ last.op = "dylib_paths"
    /\ Keys(last.pre.linked_paths) = << <<"a", "/", "b">>, <<"c", "/", "d">> >>
    /\ last.pre.base_output_directories = << <<"out1">> >>
    /\ last.arg = {JoinTarget(last.pre, <<"c", "/", "d">>)}
    /\ last.out = << JoinTarget(last.pre, <<"c", "/", "d">>),
                     PathJoin(os, JoinTarget(last.pre, <<"out1">>), <<"deps">>),
                     JoinTarget(last.pre, <<"out1">>) >>

\* C4: map_paths returns a value whose target_directory is the mapper's
\* override when there is one and the source's otherwise, and whose other
\* fields equal the source's.
MapPathsResult ==
    last.op = "map_paths" =>
        /\ last.out.target_directory =
              (IF last.arg # NoOverride THEN last.arg[1] ELSE last.pre.target_directory)
        /\ last.out.base_output_directories = last.pre.base_output_directories
        /\ last.out.non_test_binaries = last.pre.non_test_binaries
        /\ last.out.linked_paths = last.pre.linked_paths
        /\ last.out.target_triple = last.pre.target_triple
        /\ test_meta = <<last.out>>

\* A filled value has been mapped with an override.
MapPathsResultWitness ==
    /\ last.op = "map_paths"
    /\ last.arg = <<Remapped>>
    /\ last.pre.target_directory # Remapped
    /\ last.pre.base_output_directories # <<>>
    /\ \E i \in 1..Len(last.pre.linked_paths) : last.pre.linked_paths[i].value # <<>>
    /\ last.out.target_directory = Remapped

\* C5: after map_paths the Discovery-phase source equals its snapshot from
\* before the transition, with or without an override.
MapPathsLeavesSource ==
    last.op = "map_paths" => meta = <<last.pre>>

\* A source with a non-test binary has been mapped with an override.
MapPathsLeavesSourceWitness ==
    /\ last.op = "map_paths"
    /\ last.arg # NoOverride
    /\ last.pre.non_test_binaries # <<>>
    /\ test_meta # <<>>
    /\ test_meta[1].target_directory # meta[1].target_directory

\* dylib_paths is applied to Execution-phase values only, and a value made by
\* map_paths was made from one Discovery-phase value.
PhaseDiscipline ==
    /\ (last.op = "dylib_paths" => last.pre.state = TestListState)
    /\ (test_meta # <<>> /\ origin.test_meta.by = "map_paths" =>
            origin.test_meta.of = BinaryListState)

\* C6 as claimed: every Execution-phase value was produced by map_paths
\* applied to one Discovery-phase value or by from_summary, and dylib_paths
\* is applied to Execution-phase values only.
ExecutionOnlyByMapOrSummary ==
    /\ \A v \in Values : v.state = TestListState =>
            test_meta = <<v>> /\ origin.test_meta.by \in {"map_paths", "from_summary"}
    /\ PhaseDiscipline

\* C6 amended: every Execution-phase value was produced by map_paths applied
\* to one Discovery-phase value, by from_summary or by the test-only
\* constructor empty, and dylib_paths is applied to Execution-phase values only.
ExecutionByMapSummaryOrEmpty ==
    /\ \A v \in Values : v.state = TestListState =>
            test_meta = <<v>> /\ origin.test_meta.by \in {"map_paths", "from_summary", "empty"}
    /\ PhaseDiscipline

\* dylib_paths has run on a value that map_paths made.
ExecutionByMapSummaryOrEmptyWitness ==
    /\ last.op = "dylib_paths"
    /\ origin.test_meta.by = "map_paths"
    /\ meta # <<>>
    /\ last.out # <<>>

\* The operations C7 is about ("read" being the summary file's reader).
PublicOperations == {"new", "map_paths", "to_summary", "from_summary", "read"}

\* No value changes its phase where it is held.
PhasesKept ==
    /\ \A v \in ToSet(meta) : v.state = BinaryListState
    /\ \A v \in ToSet(test_meta) : v.state = TestListState

\* C7 as claimed: no Discovery-phase value is obtained from an
\* Execution-phase value, and no value changes its phase.
NoDiscoveryFromExecution ==
    /\ (meta # <<>> /\ origin.meta.ops \subseteq PublicOperations =>
            origin.meta.of # TestListState)
    /\ PhasesKept

\* C7 amended: no value changes its phase, map_paths goes from Discovery to
\* Execution only, and a Discovery-phase value is obtained from an
\* Execution-phase value only by from_summary applied to that value's summary.
DiscoveryFromExecutionOnlyBySummary ==
    /\ (meta # <<>> /\ origin.meta.of = TestListState => origin.meta.by = "from_summary")
    /\ (last.op = "map_paths" =>
            last.pre.state = BinaryListState /\ last.out.state = TestListState)
    /\ PhasesKept

\* The summary of an Execution-phase value has been read back as a
\* Discovery-phase value.
DiscoveryFromExecutionWitness ==
    /\ last.op = "from_summary"
    /\ last.out.state = BinaryListState
    /\ last.pre # <<>>
    /\ last.pre[1].state = TestListState
    /\ origin.meta.by = "from_summary"
    /\ origin.meta.of = TestListState
    /\ origin.meta.ops \subseteq PublicOperations

TransitionKeepsTargetDirectory ==
    (last.op = "map_paths" /\ last.arg = NoOverride) =>
        last.out.target_directory = last.pre.target_directory

\* C9 as claimed: the target_directory of every value made by new, map_paths
\* or from_summary is absolute, and a phase transition changes it only when
\* the mapper supplies an override.
TargetDirectoryAlwaysAbsolute ==
    /\ \A v \in ToSet(meta) : IsAbsolute(v.target_directory)
    /\ \A v \in ToSet(test_meta) :
            origin.test_meta.by # "empty" => IsAbsolute(v.target_directory)
    /\ TransitionKeepsTargetDirectory

\* C9 amended: new, map_paths and from_summary keep the path they are given
\* without validating it (new its argument, from_summary the summary's
\* target_directory, map_paths the override or else the source's), so
\* target_directory is absolute exactly when the path given is; a phase
\* transition changes it only when the mapper supplies an override.
TargetDirectoryAsGiven ==
    /\ (last.op = "new" => last.out.target_directory = last.arg)
    /\ (last.op = "from_summary" =>
            last.out.target_directory = last.arg.target_directory)
    /\ (last.op = "map_paths" /\ last.arg # NoOverride =>
            last.out.target_directory = last.arg[1])
    /\ TransitionKeepsTargetDirectory

\* A value made with a relative target directory has been mapped without an
\* override and keeps the relative path.
TargetDirectoryAsGivenWitness ==
    /\ last.op = "map_paths"
    /\ last.arg = NoOverride
    /\ ~IsAbsolute(last.pre.target_directory)
    /\ last.out.target_directory = RelTarget

\* Structural equality of two values, the collections compared as sets.
SameMap(m1, m2) ==
    {<<e.key, ToSet(e.value)>> : e \in ToSet(m1)} = {<<e.key, ToSet(e.value)>> : e \in ToSet(m2)}
StructurallyEqual(x, y) ==
    /\ x.target_directory = y.target_directory
    /\ ToSet(x.base_output_directories) = ToSet(y.base_output_directories)
    /\ SameMap(x.non_test_binaries, y.non_test_binaries)
    /\ SameMap(x.linked_paths, y.linked_paths)
    /\ x.target_triple = y.target_triple

SortedPaths(seq) == \A i, j \in 1..Len(seq) : i < j => PathLess(seq[i], seq[j])
SortedStrings(seq) == \A i, j \in 1..Len(seq) : i < j => StrLess(seq[i], seq[j])

\* C10: structurally equal values have identical summaries, whatever the
\* order their elements were inserted in: the collections of a summary are
\* the value's elements in sorted order.
SummaryIndependentOfInsertionOrder ==
    /\ \A x, y \in Values : StructurallyEqual(x, y) => to_summary(x) = to_summary(y)
    /\ \A x \in Values \cup (IF last.op = "to_summary" THEN {last.pre} ELSE {}) :
        LET s == IF last.op = "to_summary" /\ x = last.pre THEN last.out ELSE to_summary(x)
        IN  /\ SortedPaths(s.base_output_directories)
            /\ ToSet(s.base_output_directories) = ToSet(x.base_output_directories)
            /\ SortedPaths(s.linked_paths)
            /\ ToSet(s.linked_paths) = ToSet(Keys(x.linked_paths))
            /\ SortedStrings(Keys(s.non_test_binaries))
            /\ SameMap(s.non_test_binaries, x.non_test_binaries)
            /\ s.target_directory = x.target_directory

\* Two structurally equal values, one filled by inserts and one rebuilt from
\* a summary, each with two base output directories, have been summarised.
SummaryIndependentWitness ==
    /\ last.op = "to_summary"
    /\ meta # <<>> /\ test_meta # <<>>
    /\ origin.meta.by = "new"
    /\ origin.test_meta.by = "from_summary"
    /\ StructurallyEqual(meta[1], test_meta[1])
    /\ Len(meta[1].base_output_directories) = 2
    /\ last.pre = test_meta[1]

====
